---- MODULE Spec2Model ----
(***************************************************************************)
(* Graph synchronization engine of mdgraph: the full-scan builder          *)
(* (graph/mod.rs), the reference index (watcher/cache.rs), the delta       *)
(* engine (watcher/delta.rs), the change emitter (watcher/events.rs) and   *)
(* the watch pipeline (watcher/mod.rs), with the filesystem as the         *)
(* environment and a consumer that applies the emitted events.             *)
(***************************************************************************)
EXTENDS Integers, Sequences, FiniteSets, Bags, TLC

\* ------------------------------------------------------------------ bounds
\* Total filesystem activity: a write costs 1 + the number of tokens written,
\* a removal costs 1; files present at startup are paid from the same budget.
FsBudget == 5
\* The size of a directory given to a full scan, counted as the cost of
\* writing its files.
ScanBudget == 4
\* Filesystem activity, channel errors and repeated notifications while the
\* watcher thread is followed step by step.
WorkerBudget == 3
\* The same, while full rescans run next to the watcher thread.
RescanBudget == 2

\* --------------------------------------------------------------- universe
\* Stems of the document files of the watched directory.
DocStems == {"A", "B"}
\* A file name that is not valid UTF-8 (OsStr::to_str gives None).
NonUtf8 == "<non-utf8>"
\* Targets a wiki-link can name: the documents and one id without a file.
LinkIds == {"A", "B", "C"}
\* Hashtag names.
TagNames == {"t"}

Path(stem) == [stem |-> stem, ext |-> "md"]
Paths == {Path(s) : s \in DocStems \cup {NonUtf8}}
NoPath == [stem |-> "", ext |-> ""]

\* Raw text is a sequence of tokens: [[v]] or #v.
LinkTok(v) == [k |-> "link", v |-> v]
TagTok(v) == [k |-> "tag", v |-> v]
Tokens == {LinkTok(v) : v \in LinkIds} \cup {TagTok(v) : v \in TagNames}
Contents(n) == UNION {[1..m -> Tokens] : m \in 0..n}

\* ---------------------------------------------------------------- helpers
Put(f, k, v) == [x \in (DOMAIN f) \cup {k} |-> IF x = k THEN v ELSE f[x]]
Del(f, k) == [x \in (DOMAIN f) \ {k} |-> f[x]]
EmptyMap == [x \in {} |-> x]
Range(s) == {s[i] : i \in 1..Len(s)}
MapSeq(s, Op(_)) == [i \in 1..Len(s) |-> Op(s[i])]
\* The iteration orders a hash-based collection can produce for a set.
Orderings(S) ==
    {s \in [1..Cardinality(S) -> S] : \A i, j \in 1..Cardinality(S) : i # j => s[i] # s[j]}

VARIABLES
    disk,      \* filesystem: path -> raw content, for the files that exist
    pending,   \* paths with a debounced notification not yet processed
    cache,     \* the GraphCache behind AppState.graph_cache
    view,      \* the consumer's graph: startup snapshot plus applied events
    delta,     \* the GraphDelta computed for the last processed notification
    emitted,   \* the events emitted for the last processed notification
    last,      \* the last processed notification: path, kind, outcome
    skipped,   \* some notification's handler has returned an error
    budget,    \* filesystem activity still allowed
    queue,     \* the mpsc channel: batches and errors sent, not yet received
    closed,    \* the channel's sender has been dropped
    batch,     \* the events of the received batch still to be processed
    pc,        \* where the watcher thread is
    lock,      \* who holds the mutex of AppState.graph_cache
    scan,      \* a full scan: the files given to build_graph and its result
    trail      \* history: the last two processed notifications, where recorded

\* the filesystem, the index and the consumer
gvars == <<disk, pending, cache, view, delta, emitted, last, skipped, budget>>
\* the watcher thread and its channel
wvars == <<queue, closed, batch, pc, lock>>
vars == <<gvars, wvars, scan, trail>>

\* ----------------------------------------------------------- parser/mod.rs
extract_wiki_links(content) ==
    LET IsLink(t) == t.k = "link"
        Target(t) == t.v
    IN MapSeq(SelectSeq(content, IsLink), Target)

extract_hashtags(content) ==
    LET IsTag(t) == t.k = "tag"
        Name(t) == t.v
    IN MapSeq(SelectSeq(content, IsTag), Name)

parse_markdown(content) ==
    [wiki_links |-> extract_wiki_links(content), hashtags |-> extract_hashtags(content)]

\* ------------------------------------------------------------ graph/mod.rs
Node(id, value, group, file_path, hashtags) ==
    [id |-> id, label |-> id, value |-> value, group |-> group,
     file_path |-> file_path, hashtags |-> hashtags]

\* Option<String>: None is <<>>, Some(g) is <<g>>; a path string is <<path>>,
\* the empty string <<>>.
RealNode(name, value, path, hashtags) == Node(name, value, <<>>, <<path>>, hashtags)

Node_phantom(id) == Node(id, 1, <<"phantom">>, <<>>, <<>>)

Edge(from, to) == [from |-> from, to |-> to]

\* The stem as the scanner and read_markdown_file derive it.
file_name(path) == IF path.stem = NonUtf8 THEN "unknown" ELSE path.stem

MarkdownFile(path, content) == [path |-> path, content |-> content, name |-> file_name(path)]

\* scan_directory: the files of the disk in directory order.
scan_directory(d, order) == [i \in 1..Len(order) |-> MarkdownFile(order[i], d[order[i]])]

RECURSIVE FlattenEdges(_, _)
FlattenEdges(files, i) ==
    IF i > Len(files) THEN <<>>
    ELSE LET name == files[i].name
             FromHere(link) == Edge(name, link)
         IN MapSeq(parse_markdown(files[i].content).wiki_links, FromHere)
            \o FlattenEdges(files, i + 1)

\* The keys of build_graph's all_referenced_nodes map.
ReferencedOrScanned(files) ==
    {e.to : e \in Range(FlattenEdges(files, 1))} \cup {files[i].name : i \in 1..Len(files)}

\* The keys of all_referenced_nodes whose flag ends up false.
WithoutFile(files) == ReferencedOrScanned(files) \ {files[i].name : i \in 1..Len(files)}

\* build_graph leaving a document's links to itself out of the edge list
build_graph_skips_self_links(files, phantomOrder) ==
    LET file_map == {files[i].name : i \in 1..Len(files)}
        NotSelf(e) == e.from # e.to
        edges == SelectSeq(FlattenEdges(files, 1), NotSelf)
        link_counts(id) == Cardinality({i \in 1..Len(edges) : edges[i].to = id})
        FileNode(f) == RealNode(f.name, link_counts(f.name), f.path,
                                parse_markdown(f.content).hashtags)
        PhantomNode(id) == Node(id, link_counts(id), <<"phantom">>, <<>>, <<>>)
        NoFile(id) == id \notin file_map
    IN [nodes |-> MapSeq(files, FileNode) \o MapSeq(SelectSeq(phantomOrder, NoFile), PhantomNode),
        edges |-> edges]

\* build_graph giving its phantoms the fixed value of Node::phantom
build_graph_phantom_value_one(files, phantomOrder) ==
    LET file_map == {files[i].name : i \in 1..Len(files)}
        edges == FlattenEdges(files, 1)
        link_counts(id) == Cardinality({i \in 1..Len(edges) : edges[i].to = id})
        FileNode(f) == RealNode(f.name, link_counts(f.name), f.path,
                                parse_markdown(f.content).hashtags)
        NoFile(id) == id \notin file_map
    IN [nodes |-> MapSeq(files, FileNode) \o MapSeq(SelectSeq(phantomOrder, NoFile), Node_phantom),
        edges |-> edges]

\* build_graph: edges and tallies, then one node per file, then one phantom
\* per key of all_referenced_nodes whose flag is false; phantomOrder is the
\* order in which the hash map's iteration yields those keys.
build_graph(files, phantomOrder) ==
    LET file_map == {files[i].name : i \in 1..Len(files)}
        edges == FlattenEdges(files, 1)
        link_counts(id) == Cardinality({i \in 1..Len(edges) : edges[i].to = id})
        all_referenced_nodes == [id \in ReferencedOrScanned(files) |-> id \in file_map]
        FileNode(f) == RealNode(f.name, link_counts(f.name), f.path,
                                parse_markdown(f.content).hashtags)
        PhantomNode(id) == Node(id, link_counts(id), <<"phantom">>, <<>>, <<>>)
        NoFile(id) == ~all_referenced_nodes[id]
    IN [nodes |-> MapSeq(files, FileNode) \o MapSeq(SelectSeq(phantomOrder, NoFile), PhantomNode),
        edges |-> edges]

\* --------------------------------------------------------- watcher/cache.rs
GraphCache_new == [files |-> EmptyMap, links |-> EmptyMap, hashtags |-> EmptyMap, phantoms |-> {}]

from_graph_data(graph, files) ==
    LET names == {files[i].name : i \in 1..Len(files)}
        \* a later file of the same name overwrites an earlier one
        Of(n) == files[CHOOSE i \in 1..Len(files) :
                         files[i].name = n /\ \A j \in 1..Len(files) : files[j].name = n => j <= i]
    IN [files |-> [n \in names |-> Of(n).path],
        links |-> [n \in names |-> parse_markdown(Of(n).content).wiki_links],
        hashtags |-> [n \in names |-> parse_markdown(Of(n).content).hashtags],
        phantoms |-> {graph.nodes[i].id : i \in {j \in 1..Len(graph.nodes) :
                                                  graph.nodes[j].group = <<"phantom">>}}]

\* name is "" when the stem is missing or not UTF-8, and "" is never a key
has_file_by_path(c, path) == path.stem # NonUtf8 /\ path.stem \in DOMAIN c.files

node_exists(c, id) == id \in DOMAIN c.files

is_phantom(c, id) == id \in c.phantoms

get_links(c, name) == IF name \in DOMAIN c.links THEN c.links[name] ELSE <<>>

count_incoming_links(c, target) ==
    Cardinality({n \in DOMAIN c.links : target \in Range(c.links[n])})

\* add_file without the final phantoms.remove(name)
add_file_keeps_phantom(c, name, path, links, tags) ==
    [files |-> Put(c.files, name, path),
     links |-> Put(c.links, name, links),
     hashtags |-> Put(c.hashtags, name, tags),
     phantoms |-> c.phantoms]

\* add_file storing an empty outgoing list instead of the parsed one
add_file_without_links(c, name, path, links, tags) ==
    [files |-> Put(c.files, name, path),
     links |-> Put(c.links, name, <<>>),
     hashtags |-> Put(c.hashtags, name, tags),
     phantoms |-> c.phantoms \ {name}]

add_file(c, name, path, links, tags) ==
    [files |-> Put(c.files, name, path),
     links |-> Put(c.links, name, links),
     hashtags |-> Put(c.hashtags, name, tags),
     phantoms |-> c.phantoms \ {name}]

\* update_links that also clears the tags stored for the document
update_links_resets_hashtags(c, name, links) ==
    [c EXCEPT !.links = Put(@, name, links), !.hashtags = Put(@, name, <<>>)]

update_links(c, name, links) == [c EXCEPT !.links = Put(@, name, links)]

\* remove_file without hashtags.remove(name)
remove_file_keeps_hashtags(c, name) ==
    [c EXCEPT !.files = Del(@, name), !.links = Del(@, name)]

remove_file(c, name) ==
    [c EXCEPT !.files = Del(@, name), !.links = Del(@, name), !.hashtags = Del(@, name)]

add_phantom(c, id) == [c EXCEPT !.phantoms = @ \cup {id}]

remove_phantom(c, id) == [c EXCEPT !.phantoms = @ \ {id}]

\* ----------------------------------------------------------- watcher/mod.rs
\* read_markdown_file: fails when the file cannot be read (it is gone, or
\* unreadable at this moment).
read_markdown_file(path, readable) ==
    IF path \in DOMAIN disk /\ readable
    THEN [ok |-> TRUE, file |-> MarkdownFile(path, disk[path])]
    ELSE [ok |-> FALSE, file |-> MarkdownFile(path, <<>>)]

\* --------------------------------------------------------- watcher/delta.rs
GraphDelta_default ==
    [nodes_added |-> <<>>, nodes_removed |-> <<>>, nodes_updated |-> <<>>,
     edges_added |-> <<>>, edges_removed |-> <<>>]

is_empty(d) ==
    /\ d.nodes_added = <<>>
    /\ d.nodes_removed = <<>>
    /\ d.nodes_updated = <<>>
    /\ d.edges_added = <<>>
    /\ d.edges_removed = <<>>

Err(c) == [ok |-> FALSE, delta |-> GraphDelta_default, cache |-> c]
Ok(d, c) == [ok |-> TRUE, delta |-> d, cache |-> c]

\* One pass of a "for link in ..." loop that pushes an added edge and, when
\* the target has neither a file nor a phantom, a phantom node.
RECURSIVE AddedLinks(_, _, _, _)

\* the added-links loop announcing a phantom for every target without a file
AddedLinks_ignores_phantoms(name, list, i, st) ==
    IF i > Len(list) THEN st
    ELSE LET link == list[i]
             d1 == [st.delta EXCEPT !.edges_added = Append(@, Edge(name, link))]
             fresh == ~node_exists(st.cache, link)
         IN AddedLinks(name, list, i + 1,
                IF fresh
                THEN [delta |-> [d1 EXCEPT !.nodes_added = Append(@, Node_phantom(link))],
                      cache |-> add_phantom(st.cache, link)]
                ELSE [delta |-> d1, cache |-> st.cache])

AddedLinks(name, list, i, st) ==
    IF i > Len(list) THEN st
    ELSE LET link == list[i]
             d1 == [st.delta EXCEPT !.edges_added = Append(@, Edge(name, link))]
             fresh == ~node_exists(st.cache, link) /\ ~is_phantom(st.cache, link)
         IN AddedLinks(name, list, i + 1,
                IF fresh
                THEN [delta |-> [d1 EXCEPT !.nodes_added = Append(@, Node_phantom(link))],
                      cache |-> add_phantom(st.cache, link)]
                ELSE [delta |-> d1, cache |-> st.cache])

RECURSIVE RemovedLinks(_, _, _, _)

\* the removed-links loop retiring a phantom that two files still link to
RemovedLinks_off_by_one(name, list, i, st) ==
    IF i > Len(list) THEN st
    ELSE LET link == list[i]
             d1 == [st.delta EXCEPT !.edges_removed = Append(@, Edge(name, link))]
             orphan == is_phantom(st.cache, link) /\ count_incoming_links(st.cache, link) <= 2
         IN RemovedLinks(name, list, i + 1,
                IF orphan
                THEN [delta |-> [d1 EXCEPT !.nodes_removed = Append(@, link)],
                      cache |-> remove_phantom(st.cache, link)]
                ELSE [delta |-> d1, cache |-> st.cache])

\* the removed-links loop reporting an orphaned phantom without
\* cache.remove_phantom
RemovedLinks_keeps_phantom(name, list, i, st) ==
    IF i > Len(list) THEN st
    ELSE LET link == list[i]
             d1 == [st.delta EXCEPT !.edges_removed = Append(@, Edge(name, link))]
             orphan == is_phantom(st.cache, link) /\ count_incoming_links(st.cache, link) <= 1
         IN RemovedLinks(name, list, i + 1,
                IF orphan
                THEN [delta |-> [d1 EXCEPT !.nodes_removed = Append(@, link)],
                      cache |-> st.cache]
                ELSE [delta |-> d1, cache |-> st.cache])

\* One pass of a "for link in ..." loop that pushes a removed edge and retires
\* the target's phantom when at most one file still links to it.
RemovedLinks(name, list, i, st) ==
    IF i > Len(list) THEN st
    ELSE LET link == list[i]
             d1 == [st.delta EXCEPT !.edges_removed = Append(@, Edge(name, link))]
             orphan == is_phantom(st.cache, link) /\ count_incoming_links(st.cache, link) <= 1
         IN RemovedLinks(name, list, i + 1,
                IF orphan
                THEN [delta |-> [d1 EXCEPT !.nodes_removed = Append(@, link)],
                      cache |-> remove_phantom(st.cache, link)]
                ELSE [delta |-> d1, cache |-> st.cache])

\* handle_file_created not announcing the removal of the phantom it replaces
handle_file_created_silent_upgrade(path, c, rd) ==
    IF ~rd.ok THEN Err(c)
    ELSE LET file == rd.file
             parsed == parse_markdown(file.content)
             c0 == remove_phantom(c, file.name)
             d1 == [GraphDelta_default EXCEPT !.nodes_added =
                        <<RealNode(file.name, count_incoming_links(c0, file.name), path,
                                   parsed.hashtags)>>]
             st == AddedLinks(file.name, parsed.wiki_links, 1, [delta |-> d1, cache |-> c0])
         IN Ok(st.delta, add_file(st.cache, file.name, path, parsed.wiki_links, parsed.hashtags))

\* handle_file_created counting the incoming links after add_file
handle_file_created_counts_after_store(path, c, rd) ==
    IF ~rd.ok THEN Err(c)
    ELSE LET file == rd.file
             parsed == parse_markdown(file.content)
             was == is_phantom(c, file.name)
             d0 == IF was THEN [GraphDelta_default EXCEPT !.nodes_removed = <<file.name>>]
                          ELSE GraphDelta_default
             c0 == IF was THEN remove_phantom(c, file.name) ELSE c
             stored == add_file(c0, file.name, path, parsed.wiki_links, parsed.hashtags)
             d1 == [d0 EXCEPT !.nodes_added =
                        <<RealNode(file.name, count_incoming_links(stored, file.name), path,
                                   parsed.hashtags)>>]
             st == AddedLinks(file.name, parsed.wiki_links, 1, [delta |-> d1, cache |-> c0])
         IN Ok(st.delta, add_file(st.cache, file.name, path, parsed.wiki_links, parsed.hashtags))

\* handle_file_created retiring the phantom before the file is read
handle_file_created_mutates_first(path, c, rd) ==
    LET c0 == remove_phantom(c, file_name(path))
    IN IF ~rd.ok THEN Err(c0)
       ELSE LET file == rd.file
                parsed == parse_markdown(file.content)
                d0 == IF is_phantom(c, file.name)
                      THEN [GraphDelta_default EXCEPT !.nodes_removed = <<file.name>>]
                      ELSE GraphDelta_default
                d1 == [d0 EXCEPT !.nodes_added =
                           <<RealNode(file.name, count_incoming_links(c0, file.name), path,
                                      parsed.hashtags)>>]
                st == AddedLinks(file.name, parsed.wiki_links, 1, [delta |-> d1, cache |-> c0])
            IN Ok(st.delta,
                  add_file(st.cache, file.name, path, parsed.wiki_links, parsed.hashtags))

handle_file_created(path, c, rd) ==
    IF ~rd.ok THEN Err(c)
    ELSE LET file == rd.file
             parsed == parse_markdown(file.content)
             was == is_phantom(c, file.name)
             d0 == IF was THEN [GraphDelta_default EXCEPT !.nodes_removed = <<file.name>>]
                          ELSE GraphDelta_default
             c0 == IF was THEN remove_phantom(c, file.name) ELSE c
             incoming_links == count_incoming_links(c0, file.name)
             d1 == [d0 EXCEPT !.nodes_added =
                        <<RealNode(file.name, incoming_links, path, parsed.hashtags)>>]
             st == AddedLinks(file.name, parsed.wiki_links, 1, [delta |-> d1, cache |-> c0])
         IN Ok(st.delta, add_file(st.cache, file.name, path, parsed.wiki_links, parsed.hashtags))

\* The two HashSets the modify handler diffs.
old_links(c, name) == Range(get_links(c, name))
new_links(parsed) == Range(parsed.wiki_links)

\* handle_file_modified returning early only when the lists are equal
handle_file_modified_compares_lists(path, c, rd, removedOrder, addedOrder) ==
    IF ~rd.ok THEN Err(c)
    ELSE LET file == rd.file
             parsed == parse_markdown(file.content)
         IN IF get_links(c, file.name) = parsed.wiki_links
            THEN Ok(GraphDelta_default, c)
            ELSE LET s1 == RemovedLinks(file.name, removedOrder, 1,
                                        [delta |-> GraphDelta_default, cache |-> c])
                     s2 == AddedLinks(file.name, addedOrder, 1, s1)
                 IN Ok(s2.delta, update_links(s2.cache, file.name, parsed.wiki_links))

\* handle_file_modified reporting the modified document in nodes_updated
handle_file_modified_reports_update(path, c, rd, removedOrder, addedOrder) ==
    IF ~rd.ok THEN Err(c)
    ELSE LET file == rd.file
             parsed == parse_markdown(file.content)
         IN IF old_links(c, file.name) = new_links(parsed)
            THEN Ok(GraphDelta_default, c)
            ELSE LET s1 == RemovedLinks(file.name, removedOrder, 1,
                                        [delta |-> GraphDelta_default, cache |-> c])
                     s2 == AddedLinks(file.name, addedOrder, 1, s1)
                     updated == RealNode(file.name, count_incoming_links(c, file.name),
                                         file.path, parsed.hashtags)
                 IN Ok([s2.delta EXCEPT !.nodes_updated = <<updated>>],
                       update_links(s2.cache, file.name, parsed.wiki_links))

\* removedOrder and addedOrder are the iteration orders of
\* old_links.difference(&new_links) and new_links.difference(&old_links).
handle_file_modified(path, c, rd, removedOrder, addedOrder) ==
    IF ~rd.ok THEN Err(c)
    ELSE LET file == rd.file
             parsed == parse_markdown(file.content)
         IN IF old_links(c, file.name) = new_links(parsed)
            THEN Ok(GraphDelta_default, c)
            ELSE LET s1 == RemovedLinks(file.name, removedOrder, 1,
                                        [delta |-> GraphDelta_default, cache |-> c])
                     s2 == AddedLinks(file.name, addedOrder, 1, s1)
                 IN Ok(s2.delta, update_links(s2.cache, file.name, parsed.wiki_links))

\* handle_file_deleted announcing the phantom without cache.add_phantom
handle_file_deleted_forgets_phantom(path, c) ==
    IF path.stem = NonUtf8 THEN Err(c)
    ELSE LET name == path.stem
             s1 == RemovedLinks(name, get_links(c, name), 1,
                                [delta |-> GraphDelta_default, cache |-> c])
             d2 == IF count_incoming_links(s1.cache, name) > 0
                   THEN [s1.delta EXCEPT !.nodes_removed = Append(@, name),
                                         !.nodes_added = Append(@, Node_phantom(name))]
                   ELSE [s1.delta EXCEPT !.nodes_removed = Append(@, name)]
         IN Ok(d2, remove_file(s1.cache, name))

handle_file_deleted(path, c) ==
    IF path.stem = NonUtf8 THEN Err(c)
    ELSE LET name == path.stem
             s1 == RemovedLinks(name, get_links(c, name), 1,
                                [delta |-> GraphDelta_default, cache |-> c])
             incoming_links == count_incoming_links(s1.cache, name)
             d2 == IF incoming_links > 0
                   THEN [s1.delta EXCEPT !.nodes_removed = Append(@, name),
                                         !.nodes_added = Append(@, Node_phantom(name))]
                   ELSE [s1.delta EXCEPT !.nodes_removed = Append(@, name)]
             c2 == IF incoming_links > 0 THEN add_phantom(s1.cache, name) ELSE s1.cache
         IN Ok(d2, remove_file(c2, name))

\* -------------------------------------------------------- watcher/events.rs
NodeAdded(node) == [type |-> "node-added", node |-> node]
NodeRemoved(node_id) == [type |-> "node-removed", node_id |-> node_id]
NodeUpdated(node) == [type |-> "node-updated", node |-> node]
EdgeAdded(edge) == [type |-> "edge-added", edge |-> edge]
EdgeRemoved(edge) == [type |-> "edge-removed", edge |-> edge]

\* emit_delta with the additions emitted before the removals
emit_delta_additions_first(d) ==
    MapSeq(d.nodes_added, NodeAdded)
    \o MapSeq(d.nodes_updated, NodeUpdated)
    \o MapSeq(d.edges_added, EdgeAdded)
    \o MapSeq(d.nodes_removed, NodeRemoved)
    \o MapSeq(d.edges_removed, EdgeRemoved)

\* emit_delta with the added edges emitted before the added nodes
emit_delta_edges_before_nodes(d) ==
    MapSeq(d.nodes_removed, NodeRemoved)
    \o MapSeq(d.edges_removed, EdgeRemoved)
    \o MapSeq(d.edges_added, EdgeAdded)
    \o MapSeq(d.nodes_added, NodeAdded)
    \o MapSeq(d.nodes_updated, NodeUpdated)

emit_delta(d) ==
    MapSeq(d.nodes_removed, NodeRemoved)
    \o MapSeq(d.edges_removed, EdgeRemoved)
    \o MapSeq(d.nodes_added, NodeAdded)
    \o MapSeq(d.nodes_updated, NodeUpdated)
    \o MapSeq(d.edges_added, EdgeAdded)

\* ------------------------------------------------------------ the consumer
\* The consumer holds a node per id and a multiset of edges, and applies each
\* event as the event type documents it.
SeqToBag(s) == [e \in Range(s) |-> Cardinality({i \in 1..Len(s) : s[i] = e})]

SnapshotView(graph) ==
    [nodes |-> [id \in {n.id : n \in Range(graph.nodes)} |->
                    CHOOSE n \in Range(graph.nodes) : n.id = id],
     edges |-> SeqToBag(graph.edges)]

ApplyEvent(v, e) ==
    CASE e.type = "node-added" -> [v EXCEPT !.nodes = Put(@, e.node.id, e.node)]
      [] e.type = "node-removed" -> [v EXCEPT !.nodes = Del(@, e.node_id)]
      [] e.type = "node-updated" -> [v EXCEPT !.nodes = Put(@, e.node.id, e.node)]
      [] e.type = "edge-added" -> [v EXCEPT !.edges = @ (+) SetToBag({e.edge})]
      [] e.type = "edge-removed" ->
            IF BagIn(e.edge, v.edges) THEN [v EXCEPT !.edges = @ (-) SetToBag({e.edge})] ELSE v

RECURSIVE ApplyEvents(_, _, _)
\* the view after the first n events of es
ApplyEvents(v, es, n) == IF n = 0 THEN v ELSE ApplyEvent(ApplyEvents(v, es, n - 1), es[n])

\* ------------------------------------------------------------- environment
Cost(content) == 1 + Len(content)

RECURSIVE DisksWithin(_, _)
\* The disks holding exactly the paths S at a total cost of at most b.
DisksWithin(S, b) ==
    IF S = {} THEN {EmptyMap}
    ELSE LET p == CHOOSE q \in S : TRUE
         IN UNION {{Put(d, p, content) : d \in DisksWithin(S \ {p}, b - Cost(content))} :
                      content \in Contents(b - Cardinality(S))}

DiskCost(d) == LET RECURSIVE Sum(_)
                   Sum(S) == IF S = {} THEN 0
                             ELSE LET x == CHOOSE y \in S : TRUE
                                  IN Cost(d[x]) + Sum(S \ {x})
               IN Sum(DOMAIN d)

\* The directories the application can be started on.
InitDisks == UNION {DisksWithin(S, FsBudget) : S \in SUBSET Paths}

\* History of the processed notifications (no counterpart in the program's
\* state), kept only by the specification that starts with it switched on:
\* for each of the last two notifications, its path, its classification, the
\* handler's outcome, the content the file had and the Index the handler
\* was given.
NoTrail == [recording |-> FALSE, events |-> <<>>]

Recorded(p, kind, res) ==
    LET entry == [path |-> p, kind |-> kind,
                  outcome |-> IF res.ok THEN "ok" ELSE "err",
                  content |-> IF p \in DOMAIN disk THEN disk[p] ELSE <<>>,
                  cache |-> cache]
        all == Append(trail.events, entry)
    IN IF trail.recording
       THEN [trail EXCEPT !.events = IF Len(all) > 2 THEN Tail(all) ELSE all]
       ELSE trail

NoEvent == [path |-> NoPath, kind |-> "none", outcome |-> "none", handed |-> FALSE]

\* The watcher thread blocked on an empty channel, the mutex free.
WorkerIdle ==
    /\ queue = <<>>
    /\ closed = FALSE
    /\ batch = <<>>
    /\ pc = "recv"
    /\ lock = "free"

\* No full scan in progress.
GraphData_new == [nodes |-> <<>>, edges |-> <<>>]
NoScan == [files |-> <<>>, graph |-> GraphData_new, built |-> FALSE, error |-> FALSE]

\* lib.rs setup: scan, build the graph, build the cache from it; the consumer
\* starts from the same snapshot.
Startup(disks, b) ==
    \E d \in disks :
      \E dirOrder \in Orderings(DOMAIN d) :
        LET files == scan_directory(d, dirOrder)
        IN \E phantomOrder \in Orderings(WithoutFile(files)) :
             LET graph == build_graph(files, phantomOrder)
             IN /\ disk = d
                /\ pending = {}
                /\ cache = from_graph_data(graph, files)
                /\ view = SnapshotView(graph)
                /\ delta = GraphDelta_default
                /\ emitted = <<>>
                /\ last = NoEvent
                /\ skipped = FALSE
                /\ budget = b - DiskCost(d)

Init ==
    /\ Startup(InitDisks, FsBudget)
    /\ WorkerIdle
    /\ scan = NoScan
    /\ trail = NoTrail

\* A file is written (created or saved); the watcher is notified.
FsWrite(p) ==
    \E content \in Contents(budget - 1) :
        /\ budget >= Cost(content)
        /\ disk' = Put(disk, p, content)
        /\ pending' = pending \cup {p}
        /\ budget' = budget - Cost(content)
        /\ UNCHANGED <<cache, view, delta, emitted, last, skipped, wvars, scan, trail>>

\* A file is removed; the watcher is notified.
FsRemove(p) ==
    /\ budget >= 1
    /\ p \in DOMAIN disk
    /\ disk' = Del(disk, p)
    /\ pending' = pending \cup {p}
    /\ budget' = budget - 1
    /\ UNCHANGED <<cache, view, delta, emitted, last, skipped, wvars, scan, trail>>

\* ----------------------------------------------- watcher/mod.rs, the worker
\* the match on delta_result calling emit_delta for every Ok delta
delta_is_emitted_when_ok(res) == res.ok

\* The match on delta_result: emit_delta is called for an Ok delta that is not
\* empty; an Err is logged.
delta_is_emitted(res) == res.ok /\ ~is_empty(res.delta)

\* process_events for one debounced event: what is done with the handler's
\* result (the cache was mutated in place under the lock; a non-empty delta
\* of an Ok result is emitted).
Dispatch(p, kind, res) ==
    /\ cache' = res.cache
    /\ delta' = res.delta
    /\ emitted' = IF delta_is_emitted(res) THEN emit_delta(res.delta) ELSE <<>>
    /\ view' = ApplyEvents(view, emitted', Len(emitted'))
    /\ last' = [path |-> p, kind |-> kind, outcome |-> IF res.ok THEN "ok" ELSE "err",
                handed |-> delta_is_emitted(res)]
    /\ skipped' = (skipped \/ ~res.ok)
    /\ pending' = pending \ {p}
    /\ trail' = Recorded(p, kind, res)
    /\ UNCHANGED <<disk, budget, wvars, scan>>

FileCreated(p) ==
    /\ p \in pending
    /\ p \in DOMAIN disk
    /\ ~has_file_by_path(cache, p)
    /\ \E readable \in BOOLEAN :
         Dispatch(p, "create", handle_file_created(p, cache, read_markdown_file(p, readable)))

FileModified(p) ==
    /\ p \in pending
    /\ p \in DOMAIN disk
    /\ has_file_by_path(cache, p)
    /\ \E readable \in BOOLEAN :
         LET rd == read_markdown_file(p, readable)
             old == old_links(cache, rd.file.name)
             new == new_links(parse_markdown(rd.file.content))
         IN \E removedOrder \in Orderings(old \ new), addedOrder \in Orderings(new \ old) :
              Dispatch(p, "modify", handle_file_modified(p, cache, rd, removedOrder, addedOrder))

FileDeleted(p) ==
    /\ p \in pending
    /\ p \notin DOMAIN disk
    /\ Dispatch(p, "delete", handle_file_deleted(p, cache))

Next ==
    \E p \in Paths :
        \/ FsWrite(p)
        \/ FsRemove(p)
        \/ FileCreated(p)
        \/ FileModified(p)
        \/ FileDeleted(p)

Spec == Init /\ [][Next]_vars

\* ------------------------------------------- the pipeline with its history
HistoryBudget == 4

\* The pipeline of Spec, started the same way, with the history recorded.
InitHistory ==
    /\ Startup(UNION {DisksWithin(S, HistoryBudget) : S \in SUBSET Paths}, HistoryBudget)
    /\ WorkerIdle
    /\ scan = NoScan
    /\ trail = [recording |-> TRUE, events |-> <<>>]

SpecHistory == InitHistory /\ [][Next]_vars

\* ------------------------------------ watcher/mod.rs, the thread step by step
\* Spec runs process_events for one event as one step.  SpecWorker follows the
\* watcher thread through its loops: the channel, the batch, the mutex.

\* A file of the watched directory that is not markdown.
NotMarkdown == [stem |-> "A", ext |-> "txt"]
WatchedPaths == Paths \cup {NotMarkdown}

DebouncedEvent(path, kind) == [path |-> path, kind |-> kind]
\* What the debouncer sends: Ok(Vec<DebouncedEvent>) or Err(errors).
OkBatch(events) == [ok |-> TRUE, events |-> events]
ErrBatch == [ok |-> FALSE, events |-> <<>>]

WorkerDisks == UNION {DisksWithin(S, WorkerBudget) : S \in SUBSET Paths}

InitWorker ==
    /\ Startup(WorkerDisks, WorkerBudget)
    /\ WorkerIdle
    /\ scan = NoScan
    /\ trail = NoTrail

\* The debouncer's tick: the paths whose timeout has expired are sent as one
\* batch; a path still being written is reported as AnyContinuous and stays
\* with the debouncer.
Debounce ==
    /\ ~closed
    /\ \E S \in (SUBSET pending) \ {{}} :
         \E order \in Orderings(S), K \in SUBSET S :
            /\ Cardinality(K) <= budget
            /\ queue' = Append(queue,
                    OkBatch([i \in 1..Len(order) |->
                               DebouncedEvent(order[i], IF order[i] \in K THEN "AnyContinuous"
                                                                        ELSE "Any")]))
            /\ pending' = pending \ (S \ K)
            /\ budget' = budget - Cardinality(K)
    /\ UNCHANGED <<disk, cache, view, delta, emitted, last, skipped, closed, batch, pc, lock, scan, trail>>

\* The debouncer sends the errors of the underlying watcher.
WatchError ==
    /\ ~closed
    /\ budget >= 1
    /\ queue' = Append(queue, ErrBatch)
    /\ budget' = budget - 1
    /\ UNCHANGED <<disk, pending, cache, view, delta, emitted, last, skipped, closed, batch, pc,
                   lock, scan, trail>>

\* The channel's only Sender, owned by the debouncer, is dropped.
SenderDropped ==
    /\ ~closed
    /\ closed' = TRUE
    /\ UNCHANGED <<gvars, queue, batch, pc, lock, scan, trail>>

\* the thread's loop leaving at the first Err it receives
WorkerReceive_breaks_on_error ==
    /\ pc = "recv"
    /\ queue # <<>>
    /\ queue' = Tail(queue)
    /\ IF Head(queue).ok
       THEN batch' = Head(queue).events /\ pc' = "event"
       ELSE batch' = <<>> /\ pc' = "done"
    /\ UNCHANGED <<gvars, closed, lock, scan, trail>>

\* `for result in rx`: the next message; an Err is logged.
WorkerReceive ==
    /\ pc = "recv"
    /\ queue # <<>>
    /\ queue' = Tail(queue)
    /\ IF Head(queue).ok
       THEN batch' = Head(queue).events /\ pc' = "event"
       ELSE batch' = <<>> /\ pc' = "recv"
    /\ UNCHANGED <<gvars, closed, lock, scan, trail>>

\* `for result in rx` ends when the channel is empty and disconnected.
WorkerTerminate ==
    /\ pc = "recv"
    /\ queue = <<>>
    /\ closed
    /\ pc' = "done"
    /\ UNCHANGED <<gvars, queue, closed, batch, lock, scan, trail>>

\* `for event in events` is over: process_events returns.
WorkerBatchDone ==
    /\ pc = "event"
    /\ batch = <<>>
    /\ pc' = "recv"
    /\ UNCHANGED <<gvars, queue, closed, batch, lock, scan, trail>>

\* An event of a path that is not markdown: continue.
WorkerSkipNotMarkdown ==
    /\ pc = "event"
    /\ batch # <<>>
    /\ Head(batch).path.ext # "md"
    /\ batch' = Tail(batch)
    /\ UNCHANGED <<gvars, queue, closed, pc, lock, scan, trail>>

\* the handler entered without waiting for the mutex
WorkerLock_without_mutex ==
    /\ pc = "event"
    /\ batch # <<>>
    /\ Head(batch).path.ext = "md"
    /\ pc' = "locked"
    /\ UNCHANGED <<gvars, queue, closed, batch, lock, scan, trail>>

\* state.graph_cache.lock(): blocks until the mutex is free.
WorkerLock ==
    /\ pc = "event"
    /\ batch # <<>>
    /\ Head(batch).path.ext = "md"
    /\ lock = "free"
    /\ lock' = "worker"
    /\ pc' = "locked"
    /\ UNCHANGED <<gvars, queue, closed, batch, scan, trail>>

\* AnyContinuous, or a future kind: continue, which drops the guard.
WorkerSkipContinuous ==
    /\ pc = "locked"
    /\ Head(batch).kind # "Any"
    /\ lock' = "free"
    /\ batch' = Tail(batch)
    /\ pc' = "event"
    /\ UNCHANGED <<gvars, queue, closed, scan, trail>>

\* the loop going on to the next event without the match on delta_result
Handled_without_emit(p, kind, res) ==
    /\ cache' = res.cache
    /\ delta' = res.delta
    /\ emitted' = <<>>
    /\ last' = [path |-> p, kind |-> kind, outcome |-> IF res.ok THEN "ok" ELSE "err",
                handed |-> FALSE]
    /\ lock' = "free"
    /\ pc' = "event"
    /\ batch' = Tail(batch)
    /\ UNCHANGED <<disk, pending, view, skipped, budget, queue, closed, scan, trail>>

\* Handled with the guard kept past the end of the block, through the emit.
Handled_keeps_guard(p, kind, res) ==
    /\ cache' = res.cache
    /\ delta' = res.delta
    /\ emitted' = <<>>
    /\ last' = [path |-> p, kind |-> kind, outcome |-> IF res.ok THEN "ok" ELSE "err",
                handed |-> FALSE]
    /\ lock' = lock
    /\ pc' = "result"
    /\ UNCHANGED <<disk, pending, view, skipped, budget, queue, closed, batch, scan, trail>>

\* The handler has returned delta_result and the guard is dropped at the end
\* of the block.
Handled(p, kind, res) ==
    /\ cache' = res.cache
    /\ delta' = res.delta
    /\ emitted' = <<>>
    /\ last' = [path |-> p, kind |-> kind, outcome |-> IF res.ok THEN "ok" ELSE "err",
                handed |-> FALSE]
    /\ lock' = "free"
    /\ pc' = "result"
    /\ UNCHANGED <<disk, pending, view, skipped, budget, queue, closed, batch, scan, trail>>

\* The match on event.kind and on the path, with the mutex held.
WorkerHandle ==
    /\ pc = "locked"
    /\ Head(batch).kind = "Any"
    /\ LET p == Head(batch).path
       IN IF p \in DOMAIN disk
          THEN \E readable \in BOOLEAN :
                 LET rd == read_markdown_file(p, readable)
                 IN IF has_file_by_path(cache, p)
                    THEN LET old == old_links(cache, rd.file.name)
                             new == new_links(parse_markdown(rd.file.content))
                         IN \E removedOrder \in Orderings(old \ new),
                               addedOrder \in Orderings(new \ old) :
                              Handled(p, "modify",
                                      handle_file_modified(p, cache, rd, removedOrder, addedOrder))
                    ELSE Handled(p, "create", handle_file_created(p, cache, rd))
          ELSE Handled(p, "delete", handle_file_deleted(p, cache))

\* The match on delta_result, after the block that held the mutex.
WorkerEmit ==
    /\ pc = "result"
    /\ LET res == [ok |-> last.outcome = "ok", delta |-> delta]
       IN /\ emitted' = IF delta_is_emitted(res) THEN emit_delta(delta) ELSE <<>>
          /\ last' = [last EXCEPT !.handed = delta_is_emitted(res)]
          /\ skipped' = (skipped \/ ~res.ok)
    /\ view' = ApplyEvents(view, emitted', Len(emitted'))
    /\ batch' = Tail(batch)
    /\ pc' = "event"
    /\ UNCHANGED <<disk, pending, cache, delta, budget, queue, closed, lock, scan, trail>>

\* Any other thread of the application that locks AppState.graph_cache.
OtherLock ==
    /\ lock = "free"
    /\ lock' = "other"
    /\ UNCHANGED <<gvars, queue, closed, batch, pc, scan, trail>>

OtherUnlock ==
    /\ lock = "other"
    /\ lock' = "free"
    /\ UNCHANGED <<gvars, queue, closed, batch, pc, scan, trail>>

Worker ==
    \/ WorkerReceive
    \/ WorkerTerminate
    \/ WorkerBatchDone
    \/ WorkerSkipNotMarkdown
    \/ WorkerLock
    \/ WorkerSkipContinuous
    \/ WorkerHandle
    \/ WorkerEmit

NextWorker ==
    \/ \E p \in WatchedPaths : FsWrite(p) \/ FsRemove(p)
    \/ Debounce
    \/ WatchError
    \/ SenderDropped
    \/ Worker
    \/ OtherLock
    \/ OtherUnlock

SpecWorker == InitWorker /\ [][NextWorker]_vars

\* --------------------------------------------- commands/mod.rs, scan_folder
\* The index and the consumer before anything was scanned.
NothingWatched ==
    /\ pending = {}
    /\ cache = GraphCache_new
    /\ view = SnapshotView(GraphData_new)
    /\ delta = GraphDelta_default
    /\ emitted = <<>>
    /\ last = NoEvent
    /\ skipped = FALSE
    /\ budget = 0

\* The directories scan_folder is asked to scan: the root's files and one file
\* in a subdirectory that has the stem of a root file.
Nested(stem) == [stem |-> stem, ext |-> "md", dir |-> "sub"]
ScanPaths == Paths \cup {Nested("A")}
ScanDisks == UNION {DisksWithin(S, ScanBudget) : S \in SUBSET ScanPaths}

InitScan ==
    /\ disk \in ScanDisks
    /\ scan = NoScan
    /\ trail = NoTrail
    /\ NothingWatched
    /\ WorkerIdle

\* The files scan_dir_recursive pushes: those with the extension md.
MarkdownPaths(d) == {p \in DOMAIN d : p.ext = "md"}

\* scan_folder storing a cache built from its scan, under the mutex
scan_folder_refreshes_cache ==
    /\ lock = "free"
    /\ \E dirOrder \in Orderings(MarkdownPaths(disk)) :
         LET files == scan_directory(disk, dirOrder)
         IN \E phantomOrder \in Orderings(WithoutFile(files)) :
              /\ scan' = [files |-> files, graph |-> build_graph(files, phantomOrder),
                          built |-> TRUE, error |-> FALSE]
              /\ cache' = from_graph_data(scan'.graph, files)
    /\ UNCHANGED <<disk, pending, view, delta, emitted, last, skipped, budget, wvars, trail>>

\* scan_folder: scan_directory then build_graph; an unreadable directory or
\* file makes scan_directory, and so the command, return Err.
scan_folder ==
    /\ \E readable \in BOOLEAN :
         IF ~readable
         THEN scan' = [NoScan EXCEPT !.error = TRUE]
         ELSE \E dirOrder \in Orderings(MarkdownPaths(disk)) :
                LET files == scan_directory(disk, dirOrder)
                IN \E phantomOrder \in Orderings(WithoutFile(files)) :
                     scan' = [files |-> files, graph |-> build_graph(files, phantomOrder),
                              built |-> TRUE, error |-> FALSE]
    /\ UNCHANGED <<gvars, wvars, trail>>

NextScan == scan_folder

SpecScan == InitScan /\ [][NextScan]_vars

\* ------------------------------------------------- lib.rs, run: the setup
\* The application started on a directory that may hold two files of one
\* stem: setup scans it, builds the graph and the cache from the same files.
InitStartup ==
    /\ Startup(ScanDisks, ScanBudget)
    /\ WorkerIdle
    /\ scan = NoScan
    /\ trail = NoTrail

SpecStartup == InitStartup /\ [][NextScan]_vars

\* scan_folder is a command of the application: it runs on a thread of its
\* own while the watcher thread goes on.
RescanDisks == UNION {DisksWithin(S, RescanBudget) : S \in SUBSET Paths}

InitRescan ==
    /\ Startup(RescanDisks, RescanBudget)
    /\ WorkerIdle
    /\ scan = NoScan
    /\ trail = NoTrail

NextRescan ==
    \/ NextWorker
    \/ scan_folder

SpecRescan == InitRescan /\ [][NextRescan]_vars


\* ------------------------------------------------------------------ claims
\* Every id the model can name.
AllIds == LinkIds \cup DocStems \cup {"unknown"}

\* A step in which the worker processed one notification (described by last').
Processed == pending' # pending /\ pending' \subseteq pending

\* The id the last processed notification was about.
LastName == file_name(last.path)

StoredTargets(c) == UNION {Range(c.links[n]) : n \in DOMAIN c.links}

\* C1: an id is in the Index's phantom set iff it has no entry in documents
\* and some stored outgoing list contains it.
C1_PhantomIffReferencedWithoutDocument ==
    \A x \in AllIds :
        x \in cache.phantoms <=> (x \notin DOMAIN cache.files /\ x \in StoredTargets(cache))

\* C6: no id is at once a key of documents and a member of the phantom set.
C6_NeverRealAndPhantom == (DOMAIN cache.files) \cap cache.phantoms = {}

\* a create whose document references itself was processed, or a delete
\* turned a still-referenced document into a phantom
C6_Witness ==
    /\ last.outcome = "ok"
    /\ \/ last.kind = "create" /\ LastName \in Range(get_links(cache, LastName))
       \/ last.kind = "delete" /\ LastName \in cache.phantoms

\* C7: every id of a stored outgoing list is a document or a phantom.
C7_ReferencedIdHasNode ==
    StoredTargets(cache) \subseteq (DOMAIN cache.files) \cup cache.phantoms

\* an event was processed after which a stored reference points at an id
\* without a document
C7_Witness ==
    /\ last.outcome = "ok"
    /\ last.kind \in {"create", "modify"}
    /\ StoredTargets(cache) \ DOMAIN cache.files # {}


\* The payloads of the events of one type, in emission order.
EventsOfType(es, t) == SelectSeq(es, LAMBDA e : e.type = t)
GroupRank(t) ==
    CASE t = "node-removed" -> 1
      [] t = "edge-removed" -> 2
      [] t = "node-added" -> 3
      [] t = "node-updated" -> 4
      [] t = "edge-added" -> 5

\* C2: the events emitted for a non-empty Delta are all node-removed, then
\* all edge-removed, node-added, node-updated, edge-added; one event per list
\* entry, each group in the order of its Delta list.
C2_EmissionOrder ==
    (last.outcome = "ok" /\ ~is_empty(delta)) =>
        /\ \A i, j \in 1..Len(emitted) :
               i < j => GroupRank(emitted[i].type) <= GroupRank(emitted[j].type)
        /\ Len(emitted) = Len(delta.nodes_removed) + Len(delta.edges_removed)
               + Len(delta.nodes_added) + Len(delta.nodes_updated) + Len(delta.edges_added)
        /\ LET Of(t) == EventsOfType(emitted, t)
           IN /\ [i \in 1..Len(Of("node-removed")) |-> Of("node-removed")[i].node_id]
                    = delta.nodes_removed
              /\ [i \in 1..Len(Of("edge-removed")) |-> Of("edge-removed")[i].edge]
                    = delta.edges_removed
              /\ [i \in 1..Len(Of("node-added")) |-> Of("node-added")[i].node]
                    = delta.nodes_added
              /\ [i \in 1..Len(Of("node-updated")) |-> Of("node-updated")[i].node]
                    = delta.nodes_updated
              /\ [i \in 1..Len(Of("edge-added")) |-> Of("edge-added")[i].edge]
                    = delta.edges_added

\* a Delta with removed nodes, removed edges, added nodes and added edges
\* was emitted
C2_Witness ==
    /\ last.outcome = "ok"
    /\ delta.nodes_removed # <<>>
    /\ delta.edges_removed # <<>>
    /\ delta.nodes_added # <<>>
    /\ delta.edges_added # <<>>
    /\ emitted # <<>>

\* C3: a consumer applying the emitted events in order never receives a
\* NodeAdded for an id that is already in its node set.
C3_NodeAddedOnlyForAbsentId ==
    [][Processed =>
        \A k \in 1..Len(emitted') :
            emitted'[k].type = "node-added" =>
                emitted'[k].node.id \notin DOMAIN ApplyEvents(view, emitted', k - 1).nodes]_vars

\* Every endpoint of every edge of the view is the id of a node of the view.
NoDanglingEdge(v) ==
    \A e \in BagToSet(v.edges) : e.from \in DOMAIN v.nodes /\ e.to \in DOMAIN v.nodes

NodeFacts(nodes) == {[id |-> n.id, group |-> n.group, value |-> n.value] : n \in nodes}
GraphFacts(graph) == [nodes |-> NodeFacts(Range(graph.nodes)), edges |-> SeqToBag(graph.edges)]
ViewFacts(v) == [nodes |-> NodeFacts({v.nodes[id] : id \in DOMAIN v.nodes}), edges |-> v.edges]

\* scan_and_build_graph on the disk as it is (any directory and map order).
Rescan ==
    LET files == scan_directory(disk, CHOOSE o \in Orderings(DOMAIN disk) : TRUE)
    IN build_graph(files, CHOOSE o \in Orderings(WithoutFile(files)) : TRUE)

\* C5: once every change has been processed with the content then on disk, a
\* full rescan gives the node set and edge multiset of the live view.
C5_RescanEquivalence ==
    (pending = {} /\ ~skipped) => GraphFacts(Rescan) = ViewFacts(view)

\* C8: in the consumer's view, the value of every node is the number of
\* edges, with multiplicity, whose target is that node.
C8_ValueIsIncomingEdgeCount ==
    \A id \in DOMAIN view.nodes :
        view.nodes[id].value =
            BagCardinality([e \in {x \in BagToSet(view.edges) : x.to = id} |-> view.edges[e]])

\* C9: after a processed modify of a document, the stored outgoing list is
\* the reference list parsed from the content the event read.
C9_ModifyStoresParsedList ==
    [][(Processed /\ last'.kind = "modify" /\ last'.outcome = "ok") =>
        get_links(cache', file_name(last'.path))
            = parse_markdown(disk[last'.path]).wiki_links]_vars

\* C10: a handler error leaves the Index as it was and emits nothing.
C10_ErrorLeavesIndexUnchanged ==
    [][(Processed /\ last'.outcome = "err") =>
        cache' = cache /\ emitted' = <<>> /\ view' = view]_vars

\* a create failed on reading a file whose id is a phantom of the Index
C10_Witness ==
    /\ last.outcome = "err"
    /\ last.kind = "create"
    /\ LastName \in cache.phantoms

\* C13. A delta whose five lists are all empty is never handed to emit_delta,
\* and the notification that computed it emits no event.
C13_EmptyDeltaNeverEmitted ==
    is_empty(delta) => (~last.handed /\ emitted = <<>>)

\* a modification that changed no link set was processed
C13_Witness ==
    /\ last.kind = "modify"
    /\ last.outcome = "ok"
    /\ is_empty(delta)

\* Some document other than doc stores target in its list of links.
ReferencedByOther(c, doc, target) ==
    \E n \in (DOMAIN c.links) \ {doc} : target \in Range(c.links[n])

NodesAddedFor(d, id) == {i \in 1..Len(d.nodes_added) : d.nodes_added[i].id = id}
TimesRemoved(d, id) == Cardinality({i \in 1..Len(d.nodes_removed) : d.nodes_removed[i] = id})

\* C14. A delete of id always announces node-removed(id); when another
\* document's stored list contains id it also announces a phantom node for id
\* and id is a phantom afterwards; when no other document refers to id (the
\* deleted document's own links do not count) no node is announced for id and
\* id is not a phantom afterwards.
C14_DeleteLeavesPhantomIffOthersRefer ==
    [][(Processed /\ last'.kind = "delete" /\ last'.outcome = "ok") =>
         LET id == file_name(last'.path)
         IN /\ TimesRemoved(delta', id) >= 1
            /\ ReferencedByOther(cache, id, id) =>
                 /\ \E i \in NodesAddedFor(delta', id) :
                        delta'.nodes_added[i].group = <<"phantom">>
                 /\ id \in cache'.phantoms
            /\ ~ReferencedByOther(cache, id, id) =>
                 /\ NodesAddedFor(delta', id) = {}
                 /\ id \notin cache'.phantoms]_vars

\* C15. A create of id whose id was a phantom announces node-removed(id)
\* exactly once and a real node for id; a create of an id that was no phantom
\* announces no removal; either way id has a file and is no phantom afterwards.
C15_CreateUpgradesPhantom ==
    [][(Processed /\ last'.kind = "create" /\ last'.outcome = "ok") =>
         LET id == file_name(last'.path)
         IN /\ is_phantom(cache, id) =>
                 /\ TimesRemoved(delta', id) = 1
                 /\ \E i \in NodesAddedFor(delta', id) :
                        delta'.nodes_added[i].group # <<"phantom">>
            /\ ~is_phantom(cache, id) => delta'.nodes_removed = <<>>
            /\ id \in DOMAIN cache'.files
            /\ id \notin cache'.phantoms]_vars

\* a create has replaced a phantom by a file
C15_Witness ==
    /\ last.kind = "create"
    /\ last.outcome = "ok"
    /\ LastName \in Range(delta.nodes_removed)
    /\ LastName \in DOMAIN cache.files

\* C16. A modify of id announces edge-removed(id, target) for every target of
\* the old link set that is not in the new one; a phantom target is announced
\* as removed, and stops being a phantom, exactly when no other document's
\* stored list contains it.
C16_ModifyRetiresUnreferencedPhantoms ==
    [][(Processed /\ last'.kind = "modify" /\ last'.outcome = "ok") =>
         LET id == file_name(last'.path)
         IN \A target \in old_links(cache, id) \ new_links(parse_markdown(disk[last'.path])) :
              /\ Edge(id, target) \in Range(delta'.edges_removed)
              /\ is_phantom(cache, target) =>
                   /\ (TimesRemoved(delta', target) >= 1) <=> ~ReferencedByOther(cache, id, target)
                   /\ is_phantom(cache', target) <=> ReferencedByOther(cache, id, target)]_vars

\* a modify dropped a link to a phantom that another document still refers to
C16_Witness ==
    /\ last.kind = "modify"
    /\ last.outcome = "ok"
    /\ \E e \in Range(delta.edges_removed) :
         /\ e.to \in cache.phantoms
         /\ ReferencedByOther(cache, LastName, e.to)
         /\ e.to \notin Range(get_links(cache, LastName))

\* The number of times target occurs in the stored lists of links.
Occurrences(c, target) ==
    Cardinality({o \in UNION {{<<n, i>> : i \in 1..Len(c.links[n])} : n \in DOMAIN c.links} :
                    c.links[o[1]][o[2]] = target})

\* C20. count_incoming_links returns the number of times the target occurs
\* across all stored lists of links, a repeated link of one document counted
\* each time.
C20_CountIncomingCountsOccurrences ==
    \A target \in AllIds : count_incoming_links(cache, target) = Occurrences(cache, target)

\* The nodes of the scanned graph that have the given id.
NodesOf(graph, id) == {i \in 1..Len(graph.nodes) : graph.nodes[i].id = id}
ScannedNames == {scan.files[k].name : k \in 1..Len(scan.files)}
\* The places where the scanned documents named from refer to the id to.
ReferenceOccurrences(from, to) ==
    {o \in UNION {{<<k, j>> : j \in 1..Len(scan.files[k].content)} : k \in 1..Len(scan.files)} :
        /\ scan.files[o[1]].name = from
        /\ scan.files[o[1]].content[o[2]] = LinkTok(to)}
EdgesTo(graph, id) == {i \in 1..Len(graph.edges) : graph.edges[i].to = id}

\* C17. In the graph of a full scan each endpoint of an edge is the id of
\* exactly one node, and the node of an id that has a document is not a phantom.
C17_EdgeEndpointHasOneNode ==
    scan.built =>
        \A e \in Range(scan.graph.edges) : \A id \in {e.from, e.to} :
            /\ Cardinality(NodesOf(scan.graph, id)) = 1
            /\ id \in ScannedNames =>
                 \A i \in NodesOf(scan.graph, id) : scan.graph.nodes[i].group # <<"phantom">>

\* C18. The edge list of a full scan holds one edge per occurrence of a
\* reference, repeated references and references of a document to itself
\* included, and the value of every node is the number of edges that point to it.
C18_OneEdgePerReferenceOccurrence ==
    scan.built =>
        /\ \A from \in AllIds, to \in AllIds :
             Cardinality({i \in 1..Len(scan.graph.edges) : scan.graph.edges[i] = Edge(from, to)})
               = Cardinality(ReferenceOccurrences(from, to))
        /\ \A i \in 1..Len(scan.graph.nodes) :
             scan.graph.nodes[i].value = Cardinality(EdgesTo(scan.graph, scan.graph.nodes[i].id))

\* a scan of a document that refers to itself twice
C18_Witness ==
    /\ scan.built
    /\ \E id \in AllIds :
         Cardinality({i \in 1..Len(scan.graph.edges) : scan.graph.edges[i] = Edge(id, id)}) = 2

\* C19. The phantom nodes of a full scan are the reference targets that have
\* no document, each once, with no tags, no path and the tallied count as value.
C19_PhantomsAreTargetsWithoutDocument ==
    scan.built =>
        LET phantoms == {i \in 1..Len(scan.graph.nodes) : scan.graph.nodes[i].group = <<"phantom">>}
            targets == {e.to : e \in Range(scan.graph.edges)} \ ScannedNames
        IN /\ {scan.graph.nodes[i].id : i \in phantoms} = targets
           /\ \A i \in phantoms :
                /\ NodesOf(scan.graph, scan.graph.nodes[i].id) = {i}
                /\ scan.graph.nodes[i].hashtags = <<>>
                /\ scan.graph.nodes[i].file_path = <<>>
                /\ scan.graph.nodes[i].value =
                     Cardinality(UNION {ReferenceOccurrences(from, scan.graph.nodes[i].id) :
                                          from \in AllIds})

\* a scan of documents that refer twice to an id without a document
C19_Witness ==
    /\ scan.built
    /\ \E i \in 1..Len(scan.graph.nodes) :
         /\ scan.graph.nodes[i].group = <<"phantom">>
         /\ scan.graph.nodes[i].value = 2

\* C11. Neither a handler error nor a receive error stops the watcher thread:
\* after a receive error the thread waits for the next message, after a
\* failed event it is at the next event of the same batch with the channel
\* untouched, it only terminates on a closed, drained channel, and until then
\* it can take a step unless the channel is empty or the mutex is taken.
C11_ErrorsDoNotStopWorker ==
    [][/\ (pc # "done" /\ pc' = "done") => (pc = "recv" /\ closed /\ queue = <<>>)
       /\ (pc = "recv" /\ queue # <<>> /\ ~Head(queue).ok /\ queue' = Tail(queue)) =>
            (pc' = "recv" /\ batch' = <<>>)
       /\ (pc = "result" /\ last.outcome = "err" /\ pc' # pc) =>
            (pc' = "event" /\ batch' = Tail(batch) /\ queue' = queue /\ cache' = cache)
       /\ (pc # "done" /\ ~ENABLED Worker) =>
            \/ pc = "recv" /\ queue = <<>> /\ ~closed
            \/ pc = "event" /\ lock = "other"]_vars

\* after a failed event the thread has handled another event successfully
C11_Witness ==
    /\ skipped
    /\ pc = "result"
    /\ last.outcome = "ok"
    /\ ~is_empty(delta)

\* C12. A handler runs, from the classification of its event to its last
\* change of the index, while the watcher thread holds the mutex of the
\* index: the index changes in no other step, and no other thread holds the
\* mutex while an event is between classification and the handler's return.
C12_HandlerRunsUnderLock ==
    [][/\ (pc = "locked") => (lock = "worker")
       /\ (cache' # cache \/ (pc' = "result" /\ pc # "result")) =>
            (pc = "locked" /\ lock = "worker" /\ lock' = "free")]_vars

\* a handler has changed the index under the mutex and the guard is dropped
C12_Witness ==
    /\ pc = "result"
    /\ last.outcome = "ok"
    /\ ~is_empty(delta)
    /\ lock = "free"

\* C21. The handler chosen for an event of a markdown path depends only on
\* the state when the event is processed: modify when the path exists and the
\* index has a file for its id, create when it exists and the index has none,
\* delete when it does not exist; an event of a path that is not markdown
\* changes neither the index nor what the consumer has received.
C21_ClassifiedByStateWhenProcessed ==
    [][/\ (pc = "locked" /\ pc' = "result") =>
            LET p == Head(batch).path
            IN last'.kind = IF p \notin DOMAIN disk THEN "delete"
                            ELSE IF file_name(p) \in DOMAIN cache.files THEN "modify"
                            ELSE "create"
       /\ (pc = "event" /\ batch # <<>> /\ Head(batch).path.ext # "md" /\ batch' # batch) =>
            (cache' = cache /\ emitted' = emitted /\ view' = view)]_vars

\* C22. Once every change of the filesystem has been notified and processed
\* and no handler has failed, the files of the index are the ids of the
\* markdown files on disk and the stored list of links of each is the list of
\* links of its content.
C22_IndexSynchronizedWithDisk ==
    (pending = {} /\ ~skipped) =>
        /\ DOMAIN cache.files = {file_name(p) : p \in DOMAIN disk}
        /\ \A p \in DOMAIN disk :
             get_links(cache, file_name(p)) = extract_wiki_links(disk[p])

\* One edge per occurrence of a target in the stored lists of links.
IndexEdges(c) ==
    [e \in UNION {{Edge(n, c.links[n][i]) : i \in 1..Len(c.links[n])} : n \in DOMAIN c.links}
       |-> Cardinality({i \in 1..Len(c.links[e.from]) : c.links[e.from][i] = e.to})]

\* C24. The multiset of edges of the consumer's view (the startup snapshot's
\* edges, plus every edge-added, minus every edge-removed) is the multiset of
\* pairs (id, target), one per occurrence of target in the stored list of id.
C24_ViewEdgesAreStoredLinks ==
    view.edges = IndexEdges(cache)

\* C25. A modify whose parsed set of links equals the set of the stored list
\* returns an empty delta and leaves the whole index as it was; nothing is
\* emitted.
C25_EqualLinkSetsChangeNothing ==
    [][(Processed /\ last'.kind = "modify" /\ last'.outcome = "ok"
          /\ new_links(parse_markdown(disk[last'.path]))
               = old_links(cache, file_name(last'.path))) =>
         (is_empty(delta') /\ cache' = cache /\ emitted' = <<>> /\ view' = view)]_vars

\* a modify that changed the tags and the number of links, not the set of links
C25_Witness ==
    /\ last.kind = "modify"
    /\ last.outcome = "ok"
    /\ is_empty(delta)
    /\ get_links(cache, LastName) # extract_wiki_links(disk[last.path])
    /\ cache.hashtags[LastName] # extract_hashtags(disk[last.path])

\* The real nodes a delta adds for id.
RealNodesAddedFor(d, id) == {i \in NodesAddedFor(d, id) : d.nodes_added[i].group # <<"phantom">>}

\* C26. The value of the real node a create adds for id is the index's count
\* of incoming links of id taken before the new file's own list is stored:
\* the links of the new document to itself do not count.
C26_CreatedValueExcludesOwnLinks ==
    [][(Processed /\ last'.kind = "create" /\ last'.outcome = "ok") =>
         LET id == file_name(last'.path)
         IN /\ RealNodesAddedFor(delta', id) # {}
            /\ \A i \in RealNodesAddedFor(delta', id) :
                 /\ delta'.nodes_added[i].value = count_incoming_links(cache, id)
                 /\ delta'.nodes_added[i].value =
                      Cardinality({n \in (DOMAIN cache'.links) \ {id} :
                                     id \in Range(cache'.links[n])})]_vars

\* a document that links to itself was created with value 0
C26_Witness ==
    /\ last.kind = "create"
    /\ last.outcome = "ok"
    /\ Edge(LastName, LastName) \in Range(delta.edges_added)
    /\ \E i \in RealNodesAddedFor(delta, LastName) : delta.nodes_added[i].value = 0

PhantomNodesAddedFor(d, id) == NodesAddedFor(d, id) \ RealNodesAddedFor(d, id)

\* C27. A create of id adds one edge (id, ref) per occurrence of a link in the
\* new content, in order; it adds a phantom node for ref, once, exactly when
\* ref has no file and is no phantom when its link is reached, and every ref
\* it added a phantom node for is a phantom of the index afterwards.
C27_CreateAddsEdgesAndPhantoms ==
    [][(Processed /\ last'.kind = "create" /\ last'.outcome = "ok") =>
         LET id == file_name(last'.path)
             refs == extract_wiki_links(disk[last'.path])
         IN /\ delta'.edges_added = [i \in 1..Len(refs) |-> Edge(id, refs[i])]
            /\ \A ref \in AllIds :
                 Cardinality(PhantomNodesAddedFor(delta', ref)) =
                    IF /\ ref \in Range(refs)
                       /\ ~node_exists(cache, ref)
                       /\ ~is_phantom(remove_phantom(cache, id), ref)
                    THEN 1 ELSE 0
            /\ \A ref \in AllIds :
                 PhantomNodesAddedFor(delta', ref) # {} => is_phantom(cache', ref)]_vars

\* C28. A modify of id adds an edge (id, target) for every target of the new
\* set of links that is not in the old one, and a phantom node for it, marked
\* in the index, exactly when the target has no file and is no phantom; a
\* target of both sets gets no edge and no node in the delta.
C28_ModifyAddsEdgesAndPhantoms ==
    [][(Processed /\ last'.kind = "modify" /\ last'.outcome = "ok") =>
         LET id == file_name(last'.path)
             old == old_links(cache, id)
             new == new_links(parse_markdown(disk[last'.path]))
         IN /\ \A target \in new \ old :
                 /\ Edge(id, target) \in Range(delta'.edges_added)
                 /\ IF ~node_exists(cache, target) /\ ~is_phantom(cache, target)
                    THEN /\ Cardinality(NodesAddedFor(delta', target)) = 1
                         /\ PhantomNodesAddedFor(delta', target) # {}
                         /\ is_phantom(cache', target)
                    ELSE /\ NodesAddedFor(delta', target) = {}
                         /\ is_phantom(cache', target) <=> is_phantom(cache, target)
            /\ \A target \in new \cap old :
                 /\ Edge(id, target) \notin Range(delta'.edges_added)
                 /\ Edge(id, target) \notin Range(delta'.edges_removed)
                 /\ NodesAddedFor(delta', target) = {}
                 /\ TimesRemoved(delta', target) = 0]_vars

\* a modify kept a link and added a link to a target that became a phantom
C28_Witness ==
    /\ last.kind = "modify"
    /\ last.outcome = "ok"
    /\ \E e \in Range(delta.edges_added) : PhantomNodesAddedFor(delta, e.to) # {}
    /\ \E t \in Range(get_links(cache, LastName)) :
         Edge(LastName, t) \notin Range(delta.edges_added)

\* C29. A delete of id removes one edge (id, ref) per occurrence in the stored
\* list of id; afterwards id has no file, no list of links and no tags in the
\* index; a phantom that only the deleted document linked to is announced as
\* removed once and is no phantom afterwards.
C29_DeleteRemovesEdgesAndEntries ==
    [][(Processed /\ last'.kind = "delete" /\ last'.outcome = "ok") =>
         LET id == file_name(last'.path)
             stored == get_links(cache, id)
         IN /\ delta'.edges_removed = [i \in 1..Len(stored) |-> Edge(id, stored[i])]
            /\ id \notin DOMAIN cache'.files
            /\ id \notin DOMAIN cache'.links
            /\ id \notin DOMAIN cache'.hashtags
            /\ \A target \in Range(stored) :
                 (is_phantom(cache, target) /\ ~ReferencedByOther(cache, id, target)) =>
                    (TimesRemoved(delta', target) = 1 /\ ~is_phantom(cache', target))]_vars

\* a deleted document linked twice to a phantom nobody else links to
C29_Witness ==
    /\ last.kind = "delete"
    /\ last.outcome = "ok"
    /\ \E e \in Range(delta.edges_removed) :
         /\ Cardinality({i \in 1..Len(delta.edges_removed) : delta.edges_removed[i] = e}) = 2
         /\ TimesRemoved(delta, e.to) = 1
         /\ e.to # e.from

\* What process_events emits for the delta of the last handled event.
EventsOfLastDelta ==
    IF last.outcome = "ok" /\ ~is_empty(delta) THEN emit_delta(delta) ELSE <<>>

\* C30. The consumer receives the deltas one after the other, each whole: a
\* handler starts only when all events of the previous delta were emitted,
\* the events of a delta are emitted in one go while no handler runs, and the
\* consumer's view changes in no other step.
C30_DeltasEmittedWholeInOrder ==
    [][/\ (pc = "locked" /\ pc' = "result") => emitted = EventsOfLastDelta
       /\ (delta' # delta \/ cache' # cache) => (pc = "locked" /\ pc' = "result")
       /\ (pc = "result" /\ pc' # pc) =>
            /\ pc' = "event"
            /\ emitted' = EventsOfLastDelta
            /\ view' = ApplyEvents(view, emitted', Len(emitted'))
            /\ delta' = delta
            /\ cache' = cache
       /\ (view' # view \/ emitted' # emitted) => (pc \in {"locked", "result"})
       /\ (view' # view) => (pc = "result")]_vars

\* the events of a delta were emitted and the next handler is about to run
C30_Witness ==
    /\ pc = "locked"
    /\ Head(batch).kind = "Any"
    /\ emitted # <<>>
    /\ emitted = EventsOfLastDelta

\* C23. A full rescan takes no mutex and changes nothing but its own result:
\* the index, the mutex and the watcher thread are the same before and after
\* it, whatever it returns, and it can run in every state, also while the
\* mutex of the index is held.
C23_RescanLeavesIndexAndLockAlone ==
    [][/\ (scan' # scan) => (cache' = cache /\ lock' = lock /\ UNCHANGED <<gvars, wvars>>)
       /\ ENABLED scan_folder]_vars

\* a rescan has returned a graph of files the index does not have, while the
\* watcher thread holds the mutex
C23_Witness ==
    /\ scan.built
    /\ lock = "worker"
    /\ {scan.files[k].name : k \in 1..Len(scan.files)} # DOMAIN cache.files

\* C31: the watch worker holds the Index lock exactly while it is inside the
\* block that classifies one event and calls its handler: never while it
\* waits on the notification channel, never while it emits a Delta, and
\* never after it has terminated.
C31_LockHeldOnlyForOneHandlerCall ==
    /\ (lock = "worker") <=> (pc = "locked")
    /\ (pc \in {"recv", "result", "done"}) => (lock # "worker")

\* Another thread holds the lock while the worker, having computed a
\* non-empty Delta, is about to emit it.
C31_Witness ==
    /\ pc = "result"
    /\ last.outcome = "ok"
    /\ ~is_empty(delta)
    /\ lock = "other"

\* C32: the Delta of every processed notification has an empty nodes_updated
\* list, and no emitted event is a node-updated event.
C32_NoNodeUpdated ==
    /\ delta.nodes_updated = <<>>
    /\ \A i \in 1..Len(emitted) : emitted[i].type # "node-updated"

\* A modify that rewired a document and was emitted: edges removed and
\* edges added, and still nothing in nodes_updated.
C32_Witness ==
    /\ last.kind = "modify"
    /\ last.handed
    /\ delta.edges_removed # <<>>
    /\ delta.edges_added # <<>>
    /\ delta.nodes_updated = <<>>

\* The ids of the nodes the consumer holds, and the ids the Index knows as a
\* document or as a phantom.
ViewIds == DOMAIN view.nodes

IndexIds == (DOMAIN cache.files) \cup cache.phantoms

\* C33: after every processed notification the consumer's node ids (startup
\* snapshot with every emitted node-removed and node-added applied in order)
\* are the Index's document keys together with its phantom set.
C33_ViewIdsAreIndexIds == ViewIds = IndexIds

\* C34: a delete notification for an id that has no document entry and that
\* no stored list refers to yields an empty Delta and leaves the Index as it
\* was; and every id in the nodes_removed of a delete's Delta was a document
\* or a phantom of the Index just before the notification.
C34_DeleteOfUnknownIdIsSilent ==
    [][(Processed /\ last'.kind = "delete" /\ last'.outcome = "ok") =>
         LET id == file_name(last'.path)
         IN /\ (id \notin DOMAIN cache.files /\ id \notin StoredTargets(cache)) =>
                 (is_empty(delta') /\ cache' = cache)
            /\ \A i \in 1..Len(delta'.nodes_removed) :
                 delta'.nodes_removed[i] \in (DOMAIN cache.files) \cup cache.phantoms]_vars

\* The targets the documents on disk refer to.
ReferencedOnDisk ==
    UNION {Range(parse_markdown(disk[p]).wiki_links) : p \in MarkdownPaths(disk)}

\* C35: the Index built at startup from the full scan has the scanned
\* document ids as its document keys, each document's parsed reference list
\* as the stored list of its id, and as phantom set the referenced ids that
\* have no document, which are then the targets of the stored lists that
\* have no document (the directory is not changed after startup here).
C35_StartupIndexMatchesScan ==
    /\ DOMAIN cache.files = {file_name(p) : p \in MarkdownPaths(disk)}
    /\ \A p \in MarkdownPaths(disk) :
         cache.links[file_name(p)] = parse_markdown(disk[p]).wiki_links
    /\ cache.phantoms = ReferencedOnDisk \ DOMAIN cache.files
    /\ cache.phantoms = StoredTargets(cache) \ DOMAIN cache.files

\* The notification processed last and the one processed just before it.
Latest == trail.events[Len(trail.events)]

Earlier == trail.events[1]

TwoProcessed == Len(trail.events) = 2

\* C36: a create followed immediately by the delete of the same document,
\* both handled without error, leaves the Index (documents, outgoing, tags,
\* phantoms) as it was before the create.
C36_CreateThenDeleteRestoresIndex ==
    (/\ TwoProcessed
     /\ Earlier.kind = "create" /\ Earlier.outcome = "ok"
     /\ Latest.kind = "delete" /\ Latest.outcome = "ok"
     /\ Latest.path = Earlier.path) =>
        cache = Earlier.cache

\* The last notification was classified as a modify of the document that the
\* notification before it created or modified, both handled without error,
\* and the file had the same content both times.
ModifiedTwiceUnchanged ==
    /\ TwoProcessed
    /\ Earlier.kind \in {"create", "modify"} /\ Earlier.outcome = "ok"
    /\ Latest.kind = "modify" /\ Latest.outcome = "ok"
    /\ Latest.path = Earlier.path
    /\ Latest.content = Earlier.content

\* C37: a second modify notification for a document whose content has not
\* changed since the create or modify processed just before it yields an
\* empty Delta, emits nothing and leaves the Index unchanged.
C37_SecondModifyChangesNothing ==
    ModifiedTwiceUnchanged =>
        (is_empty(delta) /\ emitted = <<>> /\ ~last.handed /\ cache = Latest.cache)

\* A document with a reference was created, which changed the Index, and a
\* second notification for the unchanged file was then handled as a modify.
C37_Witness ==
    /\ ModifiedTwiceUnchanged
    /\ parse_markdown(Latest.content).wiki_links # <<>>
    /\ Earlier.cache # Latest.cache
    /\ is_empty(delta)

\* The entry a map of the Index has for an id: empty when there is none.
EntryOf(map, id) == IF id \in DOMAIN map THEN <<map[id]>> ELSE <<>>

SameEntries(c1, c2, id) ==
    /\ EntryOf(c1.files, id) = EntryOf(c2.files, id)
    /\ EntryOf(c1.links, id) = EntryOf(c2.links, id)
    /\ EntryOf(c1.hashtags, id) = EntryOf(c2.hashtags, id)

\* C38: a processed notification leaves the documents, outgoing and tags
\* entries of every id other than the affected one as they were, and a
\* modify leaves documents and tags as they were for every id.
C38_HandlersTouchOnlyTheirId ==
    (trail.events # <<>>) =>
        /\ \A id \in AllIds \ {file_name(Latest.path)} : SameEntries(cache, Latest.cache, id)
        /\ (Latest.kind = "modify") =>
              (cache.files = Latest.cache.files /\ cache.hashtags = Latest.cache.hashtags)

\* A modify has replaced the stored list of a document while another
\* document is in the Index.
C38_Witness ==
    /\ trail.events # <<>>
    /\ Latest.kind = "modify"
    /\ cache.links # Latest.cache.links
    /\ (DOMAIN cache.files) \ {file_name(Latest.path)} # {}

\* C39: the Delta of a processed notification lists no id twice in
\* nodes_removed.
C39_NoIdRemovedTwice == \A id \in AllIds : TimesRemoved(delta, id) <= 1

\* A document whose stored list names the same phantom twice was deleted:
\* two edges to the phantom are removed, and the phantom and the document
\* are each removed once.
C39_Witness ==
    /\ last.kind = "delete"
    /\ last.outcome = "ok"
    /\ \E id \in AllIds \ {LastName} :
         /\ Cardinality({i \in 1..Len(delta.edges_removed) :
                            delta.edges_removed[i] = Edge(LastName, id)}) = 2
         /\ TimesRemoved(delta, id) = 1
         /\ TimesRemoved(delta, LastName) = 1

====
